---------------------------- MODULE Spec2Model ----------------------------
(***************************************************************************)
(* A model of the teaLeaf generator's transform engine.  The repository    *)
(* holds five divergent ports of the same pipeline                          *)
(*   noise -> forward 2D DFT -> frequency mask -> inverse 2D DFT ->         *)
(*   threshold;                                                             *)
(* every port is modelled under its own prefix:                             *)
(*   sk_   src/js/sketch.js          (radix-2, field padded to FFT_SIZE)    *)
(*   ff_   src/js/fft.js             (Bluestein on Complex objects)         *)
(*   pa_   src/unnamed/part_000:1    (recursive radix-2, first sketch)      *)
(*   pb_   src/unnamed/part_000:176  (iterative radix-2, second sketch)     *)
(*   tf_   src/unnamed/part_001      (Bluestein on typed arrays)            *)
(*   wb_   src/web/sketch.js         (pipeline around part_001)             *)
(*                                                                         *)
(* NUMBERS.  The code computes in IEEE doubles.  The model computes the     *)
(* same expressions exactly, in a ring in which every value the transforms  *)
(* use exists: complex numbers are pairs <<re, im>> over the prime field    *)
(* with Modulus = 241 elements, multiplied by the code's four-product       *)
(* formula.  An angle is an integer number of steps of pi/HalfTurn; 241 - 1 *)
(* = 2 * HalfTurn, so the field holds a primitive root of unity of order    *)
(* 2 * HalfTurn (Omega) and Cos, Sin below satisfy the addition theorems    *)
(* exactly.  The map is a ring homomorphism from the values the code would  *)
(* compute without rounding, so two results that differ in the model        *)
(* differ in exact arithmetic too.  A division by n is the multiplication   *)
(* by the inverse of n.  The field has no order: the threshold stage is     *)
(* modelled on integers instead (see Threshold).                            *)
(***************************************************************************)
EXTENDS Integers, Sequences, FiniteSets, TLC

VARIABLES
    pc,        \* control point of the operation under way
    pass,      \* 1 during the caller's first transform, 2 during its second
    impl,      \* the port (or routine) that runs
    N,         \* NUM_PIXELS: side of the field (in the 1D runs: length of the line)
    cutoff,    \* FREQUENCY_CUTOFF of the run
    inverse,   \* the direction flag of the current call
    origin,    \* the line or field the run started from
    input,     \* the input of the current call (a line or a field)
    temp,      \* intermediate buffer (rowTransformed, tempRe/tempIm, ...)
    output,    \* what the operation returned (or threw)
    row,       \* loop counter of the row pass
    col,       \* loop counter of the column pass
    calls,     \* the 1D routines invoked so far, in order
    pixels,    \* the image painted so far: pixel index -> inked or not
    text,      \* the string the seed is derived from (or the query string)
    seed,      \* the seed, while it is summed and afterwards
    rng,       \* the state of the random number generator of the run
    writes     \* how often fft2d has assigned each cell of its result

vars == <<pc, pass, impl, N, cutoff, inverse, origin, input, temp, output, row, col,
          calls, pixels, text, seed, rng, writes>>

---------------------------------------------------------------------------
(* Number domain *)

\* Math.PI, in angle steps: an angle a stands for a * pi / HalfTurn.
HalfTurn == 120

FullTurn == 2 * HalfTurn

Modulus == FullTurn + 1

Norm(v) == ((v % Modulus) + Modulus) % Modulus

RECURSIVE PowMod(_, _)
PowMod(b, e) == IF e = 0 THEN 1
                ELSE IF e % 2 = 0 THEN PowMod((b * b) % Modulus, e \div 2)
                ELSE (b * PowMod(b, e - 1)) % Modulus

\* A primitive root of unity of order FullTurn in the field, standing for
\* exp(i*pi/HalfTurn): the least g whose powers g^(FullTurn/q) differ from 1
\* for the primes q = 2, 3, 5 dividing FullTurn.
Omega == CHOOSE g \in 2..(Modulus - 1) :
            \A q \in {2, 3, 5} : PowMod(g, FullTurn \div q) # 1


\* 1/v in the field.
InvTable == [v \in 1..(Modulus - 1) |->
               CHOOSE k \in 1..(Modulus - 1) : (k * v) % Modulus = 1]

Inv(v) == InvTable[Norm(v)]

OmegaPow == [a \in 0..(FullTurn - 1) |-> PowMod(Omega, a)]

\* The imaginary unit as a field element, used only to tabulate Sin.
UnitJ == OmegaPow[FullTurn \div 4]

AngleNorm(a) == ((a % FullTurn) + FullTurn) % FullTurn

CosTable == [a \in 0..(FullTurn - 1) |->
               Norm((OmegaPow[a] + OmegaPow[AngleNorm(-a)]) * Inv(2))]

SinTable == [a \in 0..(FullTurn - 1) |->
               Norm((OmegaPow[a] - OmegaPow[AngleNorm(-a)]) * Inv(2 * UnitJ))]

\* Math.cos / Math.sin of an angle given in steps.
Cos(a) == CosTable[AngleNorm(a)]

Sin(a) == SinTable[AngleNorm(a)]

---------------------------------------------------------------------------
(* class Complex *)

Complex(re, im) == <<Norm(re), Norm(im)>>

Re(z) == z[1]

Im(z) == z[2]

Zero == <<0, 0>>

One == <<1, 0>>

add(a, b) == Complex(Re(a) + Re(b), Im(a) + Im(b))

sub(a, b) == Complex(Re(a) - Re(b), Im(a) - Im(b))

mul(a, b) == Complex(Re(a) * Re(b) - Im(a) * Im(b),
                     Re(a) * Im(b) + Im(a) * Re(b))

\* scale(1 / n), and the typed-array "re[i] /= n; im[i] /= n".
divide(a, n) == Complex(Re(a) * Inv(n), Im(a) * Inv(n))

---------------------------------------------------------------------------
(* Lines (arrays of Complex) are functions over 0..n-1, indexed as in the   *)
(* code.  A call returns an outcome: the value, or the error it threw.      *)

Length(x) == Cardinality(DOMAIN x)

\* A freshly allocated array holding the values of f.  (The comparison makes
\* TLC tabulate f once instead of re-evaluating its body on every read; the
\* value is f.)
Array(f) == IF f = <<>> THEN <<>> ELSE f

Ok(v, log) == [st |-> "ok", val |-> v, oob |-> FALSE, calls |-> log]

\* `kind` thrown; oob: an index outside the array was read before the throw.
Threw(kind, wasOob, log) == [st |-> kind, val |-> <<>>, oob |-> wasOob, calls |-> log]

\* One invocation of a 1D routine: fn is "radix2" or "bluestein", len the
\* length it was given, by who handed it over ("line": the caller's line;
\* "bluestein": a padded buffer built inside the Bluestein routine).
Call(fn, n) == [fn |-> fn, len |-> n, by |-> "line"]

Inner(log) == [i \in DOMAIN log |-> [log[i] EXCEPT !.by = "bluestein"]]

RECURSIVE BitAnd(_, _)
BitAnd(a, b) == IF a = 0 \/ b = 0 THEN 0
                ELSE (a % 2) * (b % 2) + 2 * BitAnd(a \div 2, b \div 2)

\* (N & (N - 1)) === 0; for N = 0 the right operand is -1 and the result 0.
IsPow2(n) == IF n = 0 THEN TRUE ELSE BitAnd(n, n - 1) = 0

---------------------------------------------------------------------------
(* The butterfly network, common to fft1d (js/sketch.js, part_000:221) and  *)
(* fftPow2 (js/fft.js): the three loops are the same text.                  *)

\* w after j rounds of "w = w.mul(wlen)" from w = (1, 0).
RECURSIVE Twiddle(_, _)
Twiddle(wlen, j) == IF j = 0 THEN One ELSE mul(Twiddle(wlen, j - 1), wlen)

\* The indices one stage reads and writes: i + j and i + j + len/2.
StageReads(n, len) ==
    UNION { {i + j, i + j + len \div 2} :
            i \in {b \in 0..(n - 1) : b % len = 0}, j \in 0..(len \div 2 - 1) }

\* One value of len: every block i, every j < len/2.
Stage(result, n, len, sign) ==
    LET half == len \div 2
        angle == (FullTurn \div len) * sign
        wlen == Complex(Cos(angle), Sin(angle))
    IN  Array([idx \in 0..(n - 1) |->
            LET j == idx % half
                i == idx - (idx % len)
                u == result[i + j]
                v == mul(result[i + j + half], Twiddle(wlen, j))
            IN  IF idx % len < half THEN add(u, v) ELSE sub(u, v)])

\* for (len = 2; len <= n; len <<= 1).  Reading result[k] for k >= n gives
\* undefined, and undefined.mul(w) throws a TypeError.
RECURSIVE Butterflies(_, _, _, _, _)
Butterflies(result, n, len, sign, log) ==
    IF len > n THEN Ok(result, log)
    ELSE IF \E k \in StageReads(n, len) : k >= n THEN Threw("TypeError", TRUE, log)
    ELSE Butterflies(Stage(result, n, len, sign), n, 2 * len, sign, log)

---------------------------------------------------------------------------
(* src/js/sketch.js *)

\* while (bit > 0) { j = (j << 1) | (x & 1); x >>= 1; bit >>= 1; }
RECURSIVE sk_reverse(_, _, _)
sk_reverse(j, x, bit) ==
    IF bit > 0 THEN sk_reverse(2 * j + (x % 2), x \div 2, bit \div 2) ELSE j

sk_fft1d(x, inv) ==
    LET n == Length(x)
        log == <<Call("radix2", n)>>
        rev == Array([i \in 0..(n - 1) |-> sk_reverse(0, i, n \div 2)])
    IN  IF n <= 1 THEN Ok(x, log)
        ELSE IF \E i \in 0..(n - 1) : rev[i] >= n THEN Threw("TypeError", TRUE, log)
        ELSE Butterflies(Array([i \in 0..(n - 1) |-> x[rev[i]]]), n, 2,
                         IF inv THEN 1 ELSE -1, log)

\* fft2d (sketch.js:86): every row and every column goes to fft1d.
sk_line(x, inv) == sk_fft1d(x, inv)

---------------------------------------------------------------------------
(* src/js/fft.js *)

\* The number of rounds of "for (k = 0; k < Math.log2(n); k++)": the least
\* b with 2^b >= n.
RECURSIVE CeilLog2(_)
CeilLog2(n) == IF n <= 1 THEN 0 ELSE 1 + CeilLog2((n + 1) \div 2)

RECURSIVE PowerOf2(_)
PowerOf2(b) == IF b = 0 THEN 1 ELSE 2 * PowerOf2(b - 1)

\* Math.pow(2, Math.ceil(Math.log2(n)))
nextPowerOf2(n) == PowerOf2(CeilLog2(n))

\* ff_reverse with "(i >> (k + 1)) & 1": the bits are taken one place too high.
RECURSIVE ff_reverse_shifted(_, _, _, _)
ff_reverse_shifted(j, i, k, bits) ==
    IF k < bits
    THEN ff_reverse_shifted(2 * j + ((i \div PowerOf2(k + 1)) % 2), i, k + 1, bits)
    ELSE j

\* for (k = 0; k < bits; k++) j = (j << 1) | ((i >> k) & 1);
RECURSIVE ff_reverse(_, _, _, _)
ff_reverse(j, i, k, bits) ==
    IF k < bits
    THEN ff_reverse(2 * j + ((i \div PowerOf2(k)) % 2), i, k + 1, bits)
    ELSE j

\* input[j] for j >= n is undefined, and undefined.real throws a TypeError.
fftPow2(x, inv) ==
    LET n == Length(x)
        log == <<Call("radix2", n)>>
        rev == Array([i \in 0..(n - 1) |-> ff_reverse(0, i, 0, CeilLog2(n))])
    IN  IF n <= 1 THEN Ok(x, log)
        ELSE IF \E i \in 0..(n - 1) : rev[i] >= n THEN Threw("TypeError", TRUE, log)
        ELSE Butterflies(Array([i \in 0..(n - 1) |-> x[rev[i]]]), n, 2,
                         IF inv THEN 1 ELSE -1, log)

\* Lines 87-150 of bluesteinFFT: the path taken when N is no power of two.
ff_chirpConvolution(x, inv) ==
    LET n == Length(x)
        M == nextPowerOf2(2 * n - 1)
        sign == IF inv THEN 1 ELSE -1
        chirp == Array([k \in 0..(n - 1) |->
                    LET angle == (sign * HalfTurn * k * k) \div n
                    IN  Complex(Cos(angle), Sin(angle))])
        A == Array([k \in 0..(M - 1) |-> IF k < n THEN mul(x[k], chirp[k]) ELSE Zero])
        bval == Array([k \in 1..(n - 1) |->
                    LET angle == (-sign * HalfTurn * k * k) \div n
                    IN  Complex(Cos(angle), Sin(angle))])
        B == Array([k \in 0..(M - 1) |->
                IF k = 0 THEN One
                ELSE IF k < n THEN bval[k]
                ELSE IF M - k < n THEN bval[M - k]
                ELSE Zero])
        fftA == fftPow2(A, FALSE)
        fftB == fftPow2(B, FALSE)
        fftC == Array([k \in 0..(M - 1) |-> mul(fftA.val[k], fftB.val[k])])
        convResult == fftPow2(fftC, TRUE)
    IN  Ok(Array([k \in 0..(n - 1) |-> mul(chirp[k], convResult.val[k])]),
           <<Call("bluestein", n)>>
               \o Inner(fftA.calls) \o Inner(fftB.calls) \o Inner(convResult.calls))

\* bluesteinFFT without the shortcut of fft.js:82-85: every length takes the
\* chirp convolution.
bluesteinFFT_noShortcut(x, inv) == ff_chirpConvolution(x, inv)

\* bluesteinFFT (fft.js:79): "For power of 2, use standard FFT".
bluesteinFFT(x, inv) ==
    IF IsPow2(Length(x)) THEN fftPow2(x, inv) ELSE ff_chirpConvolution(x, inv)

\* fft1d (fft.js:154), the line transform of fft2d (fft.js:159).
ff_fft1d(x, inv) == bluesteinFFT(x, inv)

---------------------------------------------------------------------------
(* src/unnamed/part_000, lines 1-174: the recursive sketch *)

InvalidLength == "Error: FFT size must be a power of 2"

\* x.filter((_, i) => i % 2 === parity)
Filter(x, parity) == Array([i \in 0..(Length(x) \div 2 - 1) |-> x[2 * i + parity]])

RECURSIVE pa_fft1d(_, _)
pa_fft1d(x, inv) ==
    LET n == Length(x)
        log == <<Call("radix2", n)>>
    IN  IF n <= 1 THEN Ok(x, log)
        ELSE IF ~IsPow2(n) THEN Threw(InvalidLength, FALSE, log)
        ELSE LET even == pa_fft1d(Filter(x, 0), inv).val
                 odd == pa_fft1d(Filter(x, 1), inv).val
                 direction == IF inv THEN 1 ELSE -1
                 half == n \div 2
             IN  Ok(Array([idx \in 0..(n - 1) |->
                        LET k == idx % half
                            angle == (direction * FullTurn * k) \div n
                            w == Complex(Cos(angle), Sin(angle))
                            t == mul(w, odd[k])
                        IN  IF idx < half THEN add(even[k], t) ELSE sub(even[k], t)]),
                    log)

---------------------------------------------------------------------------
(* src/unnamed/part_000, lines 176-393: the second sketch *)

\* fft1d of part_000:221: the loops of sketch.js, then "Scale for inverse FFT".
pb_fft1d(x, inv) ==
    LET n == Length(x)
        r == sk_fft1d(x, inv)
    IN  IF n <= 1 \/ r.st # "ok" \/ ~inv THEN r
        ELSE Ok(Array([i \in 0..(n - 1) |-> divide(r.val[i], n)]), r.calls)

---------------------------------------------------------------------------
(* src/unnamed/part_001 *)

\* let p = 1; while (p < n) p <<= 1;
RECURSIVE nextPow2Loop(_, _)
nextPow2Loop(p, n) == IF p < n THEN nextPow2Loop(2 * p, n) ELSE p

\* nextPow2 called with the length of the line where bluestein passes 2n - 1:
\* the loop stops at the first power of two >= n.
nextPow2_ofLength(n) == nextPow2Loop(1, (n + 1) \div 2)

\* nextPow2 (part_001:7)
nextPow2(n) == nextPow2Loop(1, n)

\* for (; j & bit; bit >>= 1) j ^= bit;  j ^= bit;
RECURSIVE tf_advance(_, _)
tf_advance(j, bit) ==
    IF BitAnd(j, bit) # 0 THEN tf_advance(j - bit, bit \div 2) ELSE j + bit

\* for (i = 1, j = 0; i < n; i += 1): the in-place swap of a[i] and a[j]
\* when i < j.
RECURSIVE tf_permute(_, _, _, _)
tf_permute(a, n, i, j) ==
    IF i >= n THEN a
    ELSE LET j2 == tf_advance(j, n \div 2)
         IN  tf_permute(IF i < j2
                        THEN [a EXCEPT ![i] = a[j2], ![j2] = a[i]]
                        ELSE a,
                        n, i + 1, j2)

\* The caller passes power-of-two arrays only (the length-m buffers of
\* bluestein); the butterfly loops are those of Stage on re/im pairs.
fftRadix2(a, inv, normalize) ==
    LET n == Length(a)
        r == Butterflies(tf_permute(a, n, 1, 0), n, 2, IF inv THEN 1 ELSE -1,
                         <<Call("radix2", n)>>)
    IN  IF normalize
        THEN Ok(Array([i \in 0..(n - 1) |-> divide(r.val[i], n)]), r.calls)
        ELSE r

bluestein(x, inv) ==
    LET n == Length(x)
        m == nextPow2(2 * n - 1)
        sign == IF inv THEN 1 ELSE -1
        ang == Array([k \in 0..(n - 1) |-> sign * (HalfTurn \div n) * k * k])
        a0 == Array([k \in 0..(m - 1) |->
                 IF k < n
                 THEN Complex(Re(x[k]) * Cos(ang[k]) + Im(x[k]) * Sin(ang[k]),
                              Im(x[k]) * Cos(ang[k]) - Re(x[k]) * Sin(ang[k]))
                 ELSE Zero])
        b0 == Array([k \in 0..(m - 1) |->
                 IF k < n THEN Complex(Cos(ang[k]), Sin(ang[k]))
                 ELSE IF m - k < n THEN Complex(Cos(ang[m - k]), Sin(ang[m - k]))
                 ELSE Zero])
        fa == fftRadix2(a0, FALSE, FALSE)
        fb == fftRadix2(b0, FALSE, FALSE)
        prod == Array([k \in 0..(m - 1) |-> mul(fa.val[k], fb.val[k])])
        c == fftRadix2(prod, TRUE, TRUE)
    IN  Ok(Array([k \in 0..(n - 1) |->
              Complex(Re(c.val[k]) * Cos(ang[k]) + Im(c.val[k]) * Sin(ang[k]),
                      Im(c.val[k]) * Cos(ang[k]) - Re(c.val[k]) * Sin(ang[k]))]),
           <<Call("bluestein", n)>>
               \o Inner(fa.calls) \o Inner(fb.calls) \o Inner(c.calls))

\* fft1d (part_001:119)
tf_fft1d(x, inv) == bluestein(x, inv)

---------------------------------------------------------------------------
(* The 1D entry points, by name *)

Routines1D == {"sk_fft1d", "fftPow2", "ff_fft1d", "pa_fft1d", "pb_fft1d", "tf_fft1d"}

Apply(fn, x, inv) ==
    CASE fn = "sk_fft1d" -> sk_fft1d(x, inv)
      [] fn = "fftPow2"  -> fftPow2(x, inv)
      [] fn = "ff_fft1d" -> ff_fft1d(x, inv)
      [] fn = "pa_fft1d" -> pa_fft1d(x, inv)
      [] fn = "pb_fft1d" -> pb_fft1d(x, inv)
      [] fn = "tf_fft1d" -> tf_fft1d(x, inv)

\* The unnormalized discrete Fourier transform by its defining sum,
\* X[k] = sum_t x[t] * exp(sign * 2*pi*i * k*t / n): the yardstick for the
\* gain and the sign of the routines above.
RECURSIVE DftSum(_, _, _, _, _)
DftSum(x, n, k, sign, t) ==
    IF t = n THEN Zero
    ELSE LET angle == (sign * FullTurn * k * t) \div n
         IN  add(mul(x[t], Complex(Cos(angle), Sin(angle))),
                 DftSum(x, n, k, sign, t + 1))

Dft(x, inv) ==
    LET n == Length(x)
    IN  Array([k \in 0..(n - 1) |-> DftSum(x, n, k, IF inv THEN 1 ELSE -1, 0)])

Scaled(x, f) == [i \in DOMAIN x |-> Complex(Re(x[i]) * f, Im(x[i]) * f)]

---------------------------------------------------------------------------
(* Inputs *)

\* Components of the input values range over 0..MaxVal.
MaxVal == 1

Vals == {<<a, b>> : a \in 0..MaxVal, b \in 0..MaxVal} \ {Zero}

\* Lengths for which every angle the routines form is a whole number of
\* steps (n divides HalfTurn, the padded length divides FullTurn).
LineSizes == {0, 1, 2, 3, 4, 5, 6, 8}

Impulse(n, p, v) == [i \in 0..(n - 1) |-> IF i = p THEN v ELSE Zero]

\* An impulse, or an impulse followed by a unit sample.
Lines(n) ==
    {Impulse(n, p, v) : p \in 0..(n - 1), v \in Vals}
    \cup {[i \in 0..(n - 1) |-> IF i = p THEN v ELSE IF i = p + 1 THEN One ELSE Zero] :
            p \in 0..(n - 2), v \in Vals}
    \cup {[i \in 0..(n - 1) |-> Zero]}

---------------------------------------------------------------------------
(* Specification of the 1D entry points: a caller transforms a line, then   *)
(* transforms the result back with the other direction.                     *)

Init1D ==
    /\ pc = "line"
    /\ pass = 1
    /\ impl = "none"
    /\ N \in LineSizes
    /\ cutoff = 0
    /\ inverse \in BOOLEAN
    /\ origin \in Lines(N)
    /\ input = origin
    /\ temp = <<>>
    /\ output = <<>>
    /\ row = 0
    /\ col = 0
    /\ calls = <<>>
    /\ pixels = <<>>
    /\ text = <<>>
    /\ seed = <<0, 0>>
    /\ rng = <<0, 0>>
    /\ writes = <<>>

Transform1D(fn) ==
    /\ pc = "line"
    /\ pc' = "returned"
    /\ impl' = fn
    /\ output' = Apply(fn, input, inverse)
    /\ calls' = output'.calls
    /\ UNCHANGED <<pass, N, cutoff, inverse, origin, input, temp, row, col, pixels, text, seed, rng, writes>>

\* The result of the first call goes through the same routine with the
\* other direction; temp keeps the first result.
Back1D ==
    /\ pc = "returned"
    /\ output.st = "ok"
    /\ pc' = "roundtrip"
    /\ pass' = 2
    /\ temp' = output.val
    /\ input' = output.val
    /\ inverse' = ~inverse
    /\ output' = Apply(impl, output.val, ~inverse)
    /\ calls' = calls \o output'.calls
    /\ UNCHANGED <<impl, N, cutoff, origin, row, col, pixels, text, seed, rng, writes>>

Next1D ==
    \/ \E fn \in Routines1D : Transform1D(fn)
    \/ Back1D

Spec1D == Init1D /\ [][Next1D]_vars

---------------------------------------------------------------------------
(* The frequency mask.  FREQUENCY_CUTOFF and NUM_PIXELS are the globals     *)
(* cutoff and N.  A field of Complex objects is a function row -> column -> *)
(* value; the typed arrays of web/sketch.js are one function over 0..n*n-1  *)
(* holding the pair (re[i], im[i]).                                         *)

Side(F) == Length(F)

\* masked (js/sketch.js:113), called with n = FFT_SIZE
sk_masked(r, column, n) ==
    \/ cutoff <= r /\ r < n - cutoff
    \/ cutoff <= column /\ column < n - cutoff

\* generateTeaLeaf (js/sketch.js:141-147): "Apply low-pass filter"
sk_applyMask(middle) ==
    LET n == Side(middle)
    IN  Array([i \in 0..(n - 1) |-> Array([j \in 0..(n - 1) |->
            IF sk_masked(i, j, n) THEN Zero ELSE middle[i][j]])])

\* masked (part_000:96)
pa_masked(r, column) ==
    \/ cutoff <= r /\ r <= N - cutoff
    \/ cutoff <= column /\ column <= N - cutoff

\* generateTeaLeaf (part_000:115-121)
pa_applyMask(freqData) ==
    Array([r \in 0..(N - 1) |-> Array([c \in 0..(N - 1) |->
        IF pa_masked(r, c) THEN Zero ELSE freqData[r][c]])])

\* masked (part_000:293)
pb_masked(r, column, n) ==
    \/ cutoff <= r /\ r <= n - cutoff
    \/ cutoff <= column /\ column <= n - cutoff

\* generateTeaLeaf (part_000:316-322)
pb_applyMask(middle) ==
    Array([i \in 0..(N - 1) |-> Array([j \in 0..(N - 1) |->
        IF pb_masked(i, j, N) THEN Zero ELSE middle[i][j]])])

\* masked (web/sketch.js:146)
wb_masked(r, c) ==
    \/ cutoff <= r /\ r <= N - cutoff
    \/ cutoff <= c /\ c <= N - cutoff

\* applyFrequencyMask damping the masked entries (re[i] *= 0.5) where the
\* code clears them.
applyFrequencyMask_damping(reim) ==
    Array([i \in 0..(Length(reim) - 1) |->
        IF wb_masked(i \div N, i % N) THEN divide(reim[i], 2) ELSE reim[i]])

\* applyFrequencyMask (web/sketch.js:134): re[i] = 0.0; im[i] = 0.0
applyFrequencyMask(reim) ==
    Array([i \in 0..(Length(reim) - 1) |->
        IF wb_masked(i \div N, i % N) THEN Zero ELSE reim[i]])

MaskPorts == {"sk", "pa", "pb", "wb"}

ApplyMask(port, F) ==
    CASE port = "sk" -> sk_applyMask(F)
      [] port = "pa" -> pa_applyMask(F)
      [] port = "pb" -> pb_applyMask(F)
      [] port = "wb" -> applyFrequencyMask(F)

\* The entry (r, c) of a field of the port's layout.
Entry(port, F, r, c) == IF port \in {"wb", "tf"} THEN F[r * N + c] ELSE F[r][c]

---------------------------------------------------------------------------
(* Fields *)

\* The largest field side of the mask runs.
MaxSide == 5

\* A field in the port's layout from its entries e[<<r, c>>].
Layout(port, n, e) ==
    IF port \in {"wb", "tf"}
    THEN Array([i \in 0..(n * n - 1) |-> e[<<i \div n, i % n>>]])
    ELSE Array([r \in 0..(n - 1) |-> Array([c \in 0..(n - 1) |-> e[<<r, c>>]])])

Cells(n) == (0..(n - 1)) \X (0..(n - 1))

\* Entries of the test fields: one value everywhere, or one value in one cell
\* and another (possibly zero) elsewhere.
FieldEntries(n) ==
    {[rc \in Cells(n) |-> v] : v \in Vals}
    \cup {[rc \in Cells(n) |-> IF rc = p THEN v ELSE Zero] : p \in Cells(n), v \in Vals}

---------------------------------------------------------------------------
(* Specification of the mask: a spectrum is masked, and masked again.       *)

InitMask ==
    /\ pc = "spectrum"
    /\ pass = 1
    /\ impl \in MaskPorts
    /\ N \in 1..MaxSide
    /\ cutoff \in 0..(N \div 2)
    /\ inverse = FALSE
    /\ \E e \in FieldEntries(N) : origin = Layout(impl, N, e)
    /\ input = origin
    /\ temp = <<>>
    /\ output = origin
    /\ row = 0
    /\ col = 0
    /\ calls = <<>>
    /\ pixels = <<>>
    /\ text = <<>>
    /\ seed = <<0, 0>>
    /\ rng = <<0, 0>>
    /\ writes = <<>>

\* The mask loop of the port, run on the field the previous step left.
Mask(port) ==
    /\ impl = port
    /\ pc \in {"spectrum", "masked"}
    /\ pc' = IF pc = "spectrum" THEN "masked" ELSE "masked twice"
    /\ pass' = IF pc = "spectrum" THEN 1 ELSE 2
    /\ input' = output
    /\ temp' = output
    /\ output' = ApplyMask(port, output)
    /\ UNCHANGED <<impl, N, cutoff, inverse, origin, row, col, calls, pixels, text, seed, rng, writes>>

NextMask == \E port \in MaskPorts : Mask(port)

SpecMask == InitMask /\ [][NextMask]_vars

---------------------------------------------------------------------------
(* Claims about the mask (SpecMask) *)

\* c <= k <= N - c, the band of the claim, both bounds included.
InBand(k) == cutoff <= k /\ k <= N - cutoff

\* C1: the mask zeroes the entry (row, col) exactly when c <= row <= N-c or
\* c <= col <= N-c and leaves every other entry as it was, in every port.
\* masked of js/sketch.js (row < n - c) breaks it.
C1_MaskBand ==
    pc = "masked" =>
        \A rc \in Cells(N) :
            Entry(impl, output, rc[1], rc[2]) =
                IF InBand(rc[1]) \/ InBand(rc[2]) THEN Zero
                ELSE Entry(impl, origin, rc[1], rc[2])

\* C8: masking a masked field changes nothing, entry for entry.
C8_MaskIdempotent == pc = "masked twice" => output = temp

\* Reached: a field masked twice, whose first masking zeroed an entry that
\* was not zero and kept another.
C8_Witness ==
    /\ pc = "masked twice"
    /\ \E rc \in Cells(N) :
          Entry(impl, origin, rc[1], rc[2]) # Zero /\ Entry(impl, output, rc[1], rc[2]) = Zero
    /\ \E rc \in Cells(N) : Entry(impl, output, rc[1], rc[2]) # Zero

---------------------------------------------------------------------------
(* The 2D transforms, one row or one column per step *)

Ports2D == {"sk", "ff", "pa", "pb", "tf"}

\* The 1D routine the port's fft2d hands a row or a column to.
Line(port, x, inv) ==
    CASE port = "sk" -> sk_line(x, inv)
      [] port = "ff" -> ff_fft1d(x, inv)
      [] port = "pa" -> pa_fft1d(x, inv)
      [] port = "pb" -> pb_fft1d(x, inv)
      [] port = "tf" -> tf_fft1d(x, inv)

\* Math.sqrt(inRe.length) (part_001:124) of a square field's array
Sqrt(len) == CHOOSE k \in 0..len : k * k = len

\* The side the port's fft2d works with: matrix.length, the width and
\* height arguments (NUM_PIXELS), or the root of the array length.
Side2D(port, F) ==
    CASE port = "tf" -> Sqrt(Length(F))
      [] port = "pa" -> N
      [] OTHER -> Length(F)

\* An entry not written yet: Array(n).fill(null).
Null == <<"null">>

\* The buffers fft2d allocates on entry: the row results (rowTransformed = [],
\* tempRe/tempIm; part_000:40 works in place, in a copy of the data) and the
\* result (for part_001 the caller's zeroed outRe/outIm).
FreshTemp(port, F) ==
    CASE port = "tf" -> Array([i \in 0..(Length(F) - 1) |-> Zero])
      [] OTHER -> <<>>

FreshResult(port, F) ==
    LET n == Side2D(port, F)
    IN  CASE port = "tf" -> Array([i \in 0..(Length(F) - 1) |-> Zero])
          [] port = "pa" -> F
          [] OTHER -> Array([i \in 0..(n - 1) |-> Array([j \in 0..(n - 1) |-> Null])])

\* How often fft2d has assigned each cell (y * n + x) of its result so far:
\* once by the copy "data.map(row => [...row])" of part_000:40, not at all
\* where the result starts as nulls or as the caller's buffer.
FreshWrites(port, F) ==
    LET n == Side2D(port, F)
    IN  [i \in 0..(n * n - 1) |-> IF port = "pa" THEN 1 ELSE 0]

\* rowTransformed.push(v)
Push(a, v) ==
    LET k == Length(a)
    IN  Array([i \in 0..k |-> IF i < k THEN a[i] ELSE v])

\* The line a row step reads: matrix[i], result[row], or inRe/inIm[row*n + t].
RowIn(port, n) ==
    CASE port = "tf" -> Array([t \in 0..(n - 1) |-> input[row * n + t]])
      [] port = "pa" -> output[row]
      [] OTHER -> input[row]

\* The column is gathered from the matrix fft2d was given.
ColIn_raw(port, n) ==
    CASE port = "tf" -> Array([t \in 0..(n - 1) |-> input[t * n + col]])
      [] OTHER -> Array([i \in 0..(n - 1) |-> input[i][col]])

\* The line a column step gathers: rowTransformed[i][j], result[row][col],
\* or tempRe/tempIm[t*n + col].
ColIn(port, n) ==
    CASE port = "tf" -> Array([t \in 0..(n - 1) |-> temp[t * n + col]])
      [] port = "pa" -> Array([r \in 0..(n - 1) |-> output[r][col]])
      [] OTHER -> Array([i \in 0..(n - 1) |-> temp[i][col]])

\* One round of the row loop, r being what the 1D routine returned for the
\* row.  A throw of the 1D routine ends fft2d.
RowDone(port, n, r) ==
    /\ calls' = calls \o r.calls
    /\ IF r.st # "ok"
       THEN /\ pc' = "threw"
            /\ output' = r
            /\ UNCHANGED <<temp, row, writes>>
       ELSE /\ pc' = IF row + 1 < n THEN "rows" ELSE "cols"
            /\ row' = row + 1
            /\ writes' = IF port = "pa"
                          THEN [i \in DOMAIN writes |->
                                   IF i \div n = row THEN writes[i] + 1 ELSE writes[i]]
                          ELSE writes
            /\ CASE port = "tf" ->
                      /\ temp' = Array([i \in 0..(Length(temp) - 1) |->
                                    IF i \div n = row THEN r.val[i % n] ELSE temp[i]])
                      /\ UNCHANGED output
                 [] port = "pa" ->
                      /\ output' = [output EXCEPT ![row] = r.val]
                      /\ UNCHANGED temp
                 [] OTHER ->
                      /\ temp' = Push(temp, r.val)
                      /\ UNCHANGED output

RowStep(port) ==
    /\ impl = port
    /\ pc = "rows"
    /\ RowDone(port, Side2D(port, input),
               Line(port, RowIn(port, Side2D(port, input)), inverse))
    /\ UNCHANGED <<pass, impl, N, cutoff, inverse, origin, input, col, pixels, text, seed, rng>>

\* One round of the column loop, r being what the 1D routine returned for
\* the column.
ColDone(port, n, r) ==
    /\ calls' = calls \o r.calls
    /\ IF r.st # "ok"
       THEN /\ pc' = "threw"
            /\ output' = r
            /\ UNCHANGED <<col, writes>>
       ELSE /\ pc' = IF col + 1 < n THEN "cols"
                     ELSE IF port = "pa" /\ inverse THEN "scale" ELSE "done"
            /\ col' = col + 1
            /\ writes' = [i \in DOMAIN writes |->
                             IF i % n = col THEN writes[i] + 1 ELSE writes[i]]
            /\ output' =
                 IF port = "tf"
                 THEN Array([i \in 0..(Length(output) - 1) |->
                         IF i % n = col THEN r.val[i \div n] ELSE output[i]])
                 ELSE Array([i \in 0..(n - 1) |->
                         [output[i] EXCEPT ![col] = r.val[i]]])

ColStep(port) ==
    /\ impl = port
    /\ pc = "cols"
    /\ ColDone(port, Side2D(port, input),
               Line(port, ColIn(port, Side2D(port, input)), inverse))
    /\ UNCHANGED <<pass, impl, N, cutoff, inverse, origin, input, temp, row, pixels, text, seed, rng>>

\* fft2d of part_000:57-64: "if (inverse)" every entry times 1/(width*height).
ScaleStep ==
    /\ impl = "pa"
    /\ pc = "scale"
    /\ pc' = "done"
    /\ output' = Array([r \in 0..(N - 1) |-> Array([c \in 0..(N - 1) |->
                     divide(output[r][c], N * N)])])
    /\ writes' = [i \in DOMAIN writes |-> writes[i] + 1]
    /\ UNCHANGED <<pass, impl, N, cutoff, inverse, origin, input, temp, row, col, calls, pixels,
                   text, seed, rng>>

\* The caller hands the result of its first transform to fft2d again, with
\* the other direction.
Again2D ==
    /\ pc = "done"
    /\ pass = 1
    /\ pc' = "rows"
    /\ pass' = 2
    /\ inverse' = ~inverse
    /\ input' = output
    /\ temp' = FreshTemp(impl, output)
    /\ output' = FreshResult(impl, output)
    /\ writes' = FreshWrites(impl, output)
    /\ row' = 0
    /\ col' = 0
    /\ UNCHANGED <<impl, N, cutoff, origin, calls, pixels, text, seed, rng>>

\* The field sides of the 2D runs.  The radix-2 ports transform fields
\* whose side is the power of two they fix (FFT_SIZE, NUM_PIXELS = 512).
FieldSizes == {1, 2, 3, 4, 5}

Sides2D(port) ==
    IF port \in {"ff", "tf"} THEN FieldSizes ELSE {n \in FieldSizes : IsPow2(n)}

Init2D ==
    /\ pc = "rows"
    /\ pass = 1
    /\ impl \in Ports2D
    /\ N \in Sides2D(impl)
    /\ cutoff = 0
    /\ inverse \in BOOLEAN
    /\ \E e \in FieldEntries(N) : origin = Layout(impl, N, e)
    /\ input = origin
    /\ temp = FreshTemp(impl, origin)
    /\ output = FreshResult(impl, origin)
    /\ row = 0
    /\ col = 0
    /\ calls = <<>>
    /\ pixels = <<>>
    /\ text = <<>>
    /\ seed = <<0, 0>>
    /\ rng = <<0, 0>>
    /\ writes = FreshWrites(impl, origin)

Next2D ==
    \/ \E port \in Ports2D : RowStep(port)
    \/ \E port \in Ports2D : ColStep(port)
    \/ ScaleStep
    \/ Again2D

Spec2D == Init2D /\ [][Next2D]_vars

---------------------------------------------------------------------------
(* Claims about the 2D transforms (Spec2D) *)

\* C2: a field transformed FORWARD and then INVERSE comes back scaled by
\* exactly N^2, in every port.  fft2d of part_000 (both sketches) and the
\* Bluestein path of js/fft.js break it.
C2_RoundTripGain ==
    (pc = "done" /\ pass = 2 /\ inverse)
    => \A rc \in Cells(N) :
          Entry(impl, output, rc[1], rc[2]) =
              Complex(Re(Entry(impl, origin, rc[1], rc[2])) * N * N,
                      Im(Entry(impl, origin, rc[1], rc[2])) * N * N)

InputRow(port, n, y) ==
    IF port = "tf" THEN Array([t \in 0..(n - 1) |-> input[y * n + t]]) ELSE input[y]

\* Row y of the result of the row pass, where the port keeps it:
\* rowTransformed[y], tempRe/tempIm, or result[y] of part_000:43.
RowPass(port, n, y) ==
    CASE port = "tf" -> Array([t \in 0..(n - 1) |-> temp[y * n + t]])
      [] port = "pa" -> output[y]
      [] OTHER -> temp[y]

\* The order of fft2d: no column is done while a row is left; the column
\* pass starts with all rows done, their result being the transforms of the
\* rows of the input; and the column under way is gathered from that result.
RowsThenColumns ==
    LET n == Side2D(impl, input)
    IN  /\ pc = "rows" => (row < n /\ col = 0)
        /\ pc \in {"cols", "scale", "done"} => row = n
        /\ pc = "cols" =>
              /\ col < n
              /\ \A t \in 0..(n - 1) : ColIn(impl, n)[t] = RowPass(impl, n, t)[col]
        /\ (pc = "cols" /\ col = 0) =>
              \A t \in 0..(n - 1) :
                  RowPass(impl, n, t) = Line(impl, InputRow(impl, n, t), inverse).val

\* A column step leaves the columns still to be transformed as the row
\* pass wrote them.
ColumnsUntouched ==
    (pc = "cols" /\ pc' = "cols") =>
        \A t \in 0..(Side2D(impl, input) - 1), c \in (col + 1)..(Side2D(impl, input) - 1) :
            RowPass(impl, Side2D(impl, input), t)'[c] = RowPass(impl, Side2D(impl, input), t)[c]

\* fft2d leaves the field it was given as it is: the caller's first field
\* during the first transform, and no step but the hand-over of the result
\* to the second transform changes the input.
InputKept == pass = 1 => input = origin

InputStays == pass' = pass => input' = input

---------------------------------------------------------------------------
(* The threshold.  The values of the field that came out of the inverse     *)
(* transform are compared with each other and with the threshold only, so   *)
(* the threshold runs take them as integers, in HALVES (the entry 9 is the  *)
(* value 4.5), which makes NUM_PIXELS * NUM_PIXELS / 2 exact for odd sides: *)
(* value > n * n / 2 is entry > n * n.                                      *)

\* js/sketch.js:5 "Nearest power of 2 >= NUM_PIXELS for FFT".
FFT_SIZE == nextPowerOf2(N)

\* The side of the field the port transformed, and hands to its pixel loop:
\* js/sketch.js pads the NUM_PIXELS field to FFT_SIZE, the others do not.
FieldSide(port) == IF port = "sk" THEN FFT_SIZE ELSE N

\* js/sketch.js:7, part_000:125, part_000:181, web/sketch.js:155, doubled.
THRESHOLD == N * N

\* The pixel the loop paints for the entry (y, x): the loops of js/sketch.js
\* and part_000 go row by row (idx += 4, result.push); renderTeaLeaf of
\* web/sketch.js paints the entry into the flipped row.
PixelOf(port, y, x) ==
    IF port = "wb" THEN (N - 1 - y) * N + x ELSE y * N + x

\* The entry (y, x) of a field of side n in the port's layout.
EntryOf(port, F, n, y, x) == IF port = "wb" THEN F[y * n + x] ELSE F[y][x]

\* One round of the inner pixel loop.
Paint(port) ==
    /\ impl = port
    /\ pc = "paint"
    /\ pixels' = [p \in DOMAIN pixels \cup {PixelOf(port, row, col)} |->
                    IF p = PixelOf(port, row, col)
                    THEN Re(EntryOf(port, output, FieldSide(port), row, col)) > THRESHOLD
                    ELSE pixels[p]]
    /\ col' = IF col + 1 < N THEN col + 1 ELSE 0
    /\ row' = IF col + 1 < N THEN row ELSE row + 1
    /\ pc' = IF col + 1 < N \/ row + 1 < N THEN "paint" ELSE "painted"
    /\ UNCHANGED <<pass, impl, N, cutoff, inverse, origin, input, temp, output, calls, text, seed, rng, writes>>

ThreshPorts == {"sk", "pa", "pb", "wb"}

\* The largest NUM_PIXELS of the threshold runs.
MaxPixels == 3

\* part_000 sets NUM_PIXELS to a power of two; js/sketch.js and
\* web/sketch.js set it to 420.
PixelSizes(port) ==
    IF port \in {"pa", "pb"} THEN {n \in 1..MaxPixels : IsPow2(n)} ELSE 1..MaxPixels

\* Values (in halves) at and next to half the square of each side in play.
Levels(n, side) ==
    {0} \cup {n * n + d : d \in {-1, 0, 1}} \cup {side * side + d : d \in {-1, 0, 1}}

\* Fields out of the inverse transform: one real level everywhere but in
\* one cell, which has another level and any imaginary part.
ThreshEntries(n, side) ==
    {[rc \in Cells(side) |-> IF rc = p THEN Complex(b, im) ELSE Complex(a, 0)] :
        p \in {<<0, 0>>, <<n - 1, 0>>}, a \in {0, side * side}, b \in Levels(n, side),
        im \in {0, 2 * side * side}}

InitThresh ==
    /\ pc = "paint"
    /\ pass = 2
    /\ impl \in ThreshPorts
    /\ N \in PixelSizes(impl)
    /\ cutoff = 0
    /\ inverse = TRUE
    /\ \E e \in ThreshEntries(N, FieldSide(impl)) :
          origin = Layout(impl, FieldSide(impl), e)
    /\ input = origin
    /\ temp = <<>>
    /\ output = origin
    /\ row = 0
    /\ col = 0
    /\ calls = <<>>
    /\ pixels = <<>>
    /\ text = <<>>
    /\ seed = <<0, 0>>
    /\ rng = <<0, 0>>
    /\ writes = <<>>

NextThresh == \E port \in ThreshPorts : Paint(port)

SpecThresh == InitThresh /\ [][NextThresh]_vars

---------------------------------------------------------------------------
(* Claims about the threshold (SpecThresh) *)

\* C9: the bit of each entry is set exactly when its real component exceeds
\* half the square of the side of the field that was transformed (an entry
\* 2v against side * side, in halves); the imaginary component plays no
\* part and a real component equal to the threshold gives no bit.
\* js/sketch.js, which transforms a FFT_SIZE field and compares with
\* NUM_PIXELS * NUM_PIXELS / 2, breaks it.
C9_Threshold ==
    pc = "painted"
    => \A rc \in Cells(N) :
          pixels[PixelOf(impl, rc[1], rc[2])] =
              (Re(EntryOf(impl, output, FieldSide(impl), rc[1], rc[2]))
                  > FieldSide(impl) * FieldSide(impl))

---------------------------------------------------------------------------
(* Claims about the 1D transforms (Spec1D) *)

\* The routines that run the power-of-two butterfly network on the caller's line.
Radix2Routines == {"sk_fft1d", "fftPow2", "pa_fft1d", "pb_fft1d"}

\* The routines that take the chirp-convolution path.
BluesteinRoutines == {"ff_fft1d", "tf_fft1d"}

Flat(n) == [k \in 0..(n - 1) |-> One]

\* C3: the power-of-two 1D transform with direction INVERSE divides by
\* nothing: it is the unnormalized inverse sum (only the sign of the angle
\* differs from FORWARD), and inverse(forward(x)) = N * x.  Stated of the
\* three iterative routines the claim names; fft1d of part_000:221 breaks it.
C3_InverseUnscaled ==
    (/\ impl \in {"sk_fft1d", "fftPow2", "pb_fft1d"}
     /\ IsPow2(N)
     /\ inverse
     /\ pc \in {"returned", "roundtrip"})
    => /\ output.st = "ok"
       /\ output.val = Dft(input, TRUE)
       /\ pc = "roundtrip" => output.val = Scaled(origin, N)

\* C4: on the Bluestein path (N not a power of two, both directions) the
\* convolution is divided by M once, so the result has the gain of the
\* direct unnormalized sum of length N (whatever the sign of its angle), and
\* the call does not fail.  bluesteinFFT of js/fft.js breaks it.
C4_BluesteinGain ==
    (pc = "returned" /\ impl \in BluesteinRoutines /\ ~IsPow2(N))
    => /\ output.st = "ok"
       /\ output.val \in {Dft(input, FALSE), Dft(input, TRUE)}

\* C5: for a power-of-two N and both directions the chirp-convolution
\* computation returns what the radix-2 routine of the same file returns for
\* that direction.  bluestein of part_001 breaks it (and so does the
\* convolution path of js/fft.js, when it is run on such an N).
C5_BluesteinIsRadix2 ==
    (pc = "returned" /\ IsPow2(N) /\ N >= 1)
    => /\ impl = "tf_fft1d" => output.val = fftRadix2(input, inverse, FALSE).val
       /\ impl = "ff_fft1d" =>
            /\ output.val = fftPow2(input, inverse).val
            /\ ff_chirpConvolution(input, inverse).val = output.val

\* C6: the forward transform of the unit impulse at index 0 is the flat
\* spectrum of ones, on the radix-2 path for N = 8 and on the Bluestein path
\* for N = 5.  bluesteinFFT of js/fft.js breaks it for N = 5.
C6_ImpulseIsFlat ==
    (/\ pc = "returned"
     /\ ~inverse
     /\ input = Impulse(N, 0, One)
     /\ \/ N = 8 /\ impl \in Radix2Routines \cup {"ff_fft1d"}
        \/ N = 5 /\ impl \in BluesteinRoutines)
    => output.st = "ok" /\ output.val = Flat(N)

\* C7: the radix-2 routine given a line whose length is no power of two
\* fails with the invalid-length error, having read no index outside the
\* line; given a line of length 0 or 1 it returns the values unchanged.
\* fft1d of js/sketch.js and fftPow2 of js/fft.js break it.
C7_InvalidLength ==
    (pc = "returned" /\ impl \in Radix2Routines)
    => /\ ~IsPow2(N) => output.st = InvalidLength /\ ~output.oob
       /\ N <= 1 => output.st = "ok" /\ output.val = input

---------------------------------------------------------------------------
(* The bit-reversal step on its own, one round of its loop at a time.  The  *)
(* line holds its own indices, so that the result shows the permutation.    *)

RevPorts == {"sk", "ff", "tf"}

\* The longest line of the bit-reversal runs has 2^MaxBits entries.
MaxBits == 4

RevSizes == {PowerOf2(b) : b \in 0..MaxBits}

Identity(n) == [i \in 0..(n - 1) |-> i]

\* The index the gather loops read for position i: js/sketch.js:51-59 and
\* part_000:228-236 shift a mask (bit = n >> 1), js/fft.js:48-53 counts
\* Math.log2(n) bits.
Gathered(port, n, i) ==
    IF port = "sk" THEN sk_reverse(0, i, n \div 2)
    ELSE ff_reverse(0, i, 0, CeilLog2(n))

InitRev ==
    /\ pc = "reverse"
    /\ pass = 1
    /\ impl \in RevPorts
    /\ N \in RevSizes
    /\ cutoff = 0
    /\ inverse = FALSE
    /\ origin = Identity(N)
    /\ input = origin
    /\ temp = <<>>
    /\ output = IF impl = "tf" THEN origin ELSE <<>>
    /\ row = IF impl = "tf" THEN 1 ELSE 0
    /\ col = 0
    /\ calls = <<>>
    /\ pixels = <<>>
    /\ text = <<>>
    /\ seed = <<0, 0>>
    /\ rng = <<0, 0>>
    /\ writes = <<>>

\* One round of "for (let i = 0; i < n; i++)" of the gather loops:
\* result[i] = new Complex(input[j].real, input[j].imag).  A line of
\* length <= 1 is returned as a copy before the loop.
Gather(port) ==
    /\ impl = port
    /\ pc = "reverse"
    /\ IF N <= 1
       THEN /\ output' = input
            /\ pc' = "reversed"
            /\ UNCHANGED row
       ELSE /\ output' = [i \in 0..row |->
                            IF i = row THEN input[Gathered(port, N, row)] ELSE output[i]]
            /\ row' = row + 1
            /\ pc' = IF row + 1 < N THEN "reverse" ELSE "reversed"
    /\ UNCHANGED <<pass, impl, N, cutoff, inverse, origin, input, temp, col, calls, pixels, text, seed, rng, writes>>

\* One round of "for (let i = 1, j = 0; i < n; i += 1)" of fftRadix2
\* (part_001:16-24), which permutes re/im in place.
Swap ==
    /\ impl = "tf"
    /\ pc = "reverse"
    /\ IF row >= N
       THEN /\ pc' = "reversed"
            /\ UNCHANGED <<output, row, col, writes>>
       ELSE LET j == tf_advance(col, N \div 2)
            IN  /\ col' = j
                /\ output' = IF row < j
                             THEN [output EXCEPT ![row] = output[j], ![j] = output[row]]
                             ELSE output
                /\ row' = row + 1
                /\ pc' = IF row + 1 < N THEN "reverse" ELSE "reversed"
    /\ UNCHANGED <<pass, impl, N, cutoff, inverse, origin, input, temp, calls, pixels, text, seed, rng, writes>>

NextRev ==
    \/ \E port \in {"sk", "ff"} : Gather(port)
    \/ Swap

SpecRev == InitRev /\ [][NextRev]_vars

---------------------------------------------------------------------------
(* Claims about the bit reversal (SpecRev) *)

\* Bit b of k.
BitOf(k, b) == (k \div PowerOf2(b)) % 2

\* The index whose `bits`-bit binary representation is that of i reversed.
Reversal(i, bits) ==
    CHOOSE j \in 0..(PowerOf2(bits) - 1) :
        \A b \in 0..(bits - 1) : BitOf(j, b) = BitOf(i, bits - 1 - b)

\* C14: for a power-of-two N the bit-reversal step puts at position i the
\* input element whose index is the reversal of the log2(N)-bit
\* representation of i; the index map is a bijection on [0,N) and an
\* involution; the shifting-mask gather, the bit-count gather and the
\* in-place swap give the same permutation.
C14_BitReversal ==
    pc = "reversed"
    => /\ DOMAIN output = 0..(N - 1)
       /\ \A i \in 0..(N - 1) : output[i] = input[Reversal(i, CeilLog2(N))]
       /\ {output[i] : i \in 0..(N - 1)} = 0..(N - 1)
       /\ \A i \in 0..(N - 1) : output[output[i]] = i
       /\ output = tf_permute(input, N, 1, 0)
       /\ \A i \in 0..(N - 1) : /\ output[i] = input[sk_reverse(0, i, N \div 2)]
                                /\ output[i] = input[ff_reverse(0, i, 0, CeilLog2(N))]

\* Reached: an implementation has permuted a line of at least eight
\* entries, moving some of them.
C14_Witness ==
    /\ pc = "reversed"
    /\ N >= 8
    /\ output # input

---------------------------------------------------------------------------
(* The set-up of the chirp convolution on its own: the length M, then the   *)
(* buffers A (temp) and B (output), one loop round at a time.  col holds M. *)

ChirpPorts == {"ff", "tf"}

\* The longest line of the set-up runs.
MaxChirp == 24

\* The lengths n for which every chirp angle pi*k*k/n is a whole number of
\* steps; bluesteinFFT of js/fft.js gets here only when n is no power of two.
ChirpSizes(port) ==
    {n \in 1..MaxChirp : HalfTurn % n = 0 /\ (port = "ff" => ~IsPow2(n))}

\* exp(i * s * pi * k^2 / n): fft.js:105-106, :127-128 (s = sign, -sign) and
\* part_001:75-77.
Chirp(s, k, n) ==
    LET angle == (s * HalfTurn * k * k) \div n
    IN  Complex(Cos(angle), Sin(angle))

Sign == IF inverse THEN 1 ELSE -1

InitChirp ==
    /\ pc = "size"
    /\ pass = 1
    /\ impl \in ChirpPorts
    /\ N \in ChirpSizes(impl)
    /\ cutoff = 0
    /\ inverse \in BOOLEAN
    /\ origin = [i \in 0..(N - 1) |-> One]
    /\ input = origin
    /\ temp = <<>>
    /\ output = <<>>
    /\ row = 0
    /\ col = 0
    /\ calls = <<>>
    /\ pixels = <<>>
    /\ text = <<>>
    /\ seed = <<0, 0>>
    /\ rng = <<0, 0>>
    /\ writes = <<>>

\* const M = nextPowerOf2(2 * N - 1); A = new Array(M); B = new
\* Array(M).fill(null).map(() => new Complex(0, 0)); B[0] = new Complex(1, 0)
\* (fft.js:88, :110, :124-125), and m = nextPow2(2 * n - 1) with the four
\* zeroed Float64Array(m) (part_001:64-69).
Size(port) ==
    LET M == IF port = "ff" THEN nextPowerOf2(2 * N - 1) ELSE nextPow2(2 * N - 1)
    IN  /\ impl = port
        /\ pc = "size"
        /\ col' = M
        /\ row' = 0
        /\ temp' = IF port = "ff" THEN [k \in 0..(M - 1) |-> Null]
                   ELSE [k \in 0..(M - 1) |-> Zero]
        /\ output' = IF port = "ff" THEN [k \in 0..(M - 1) |-> IF k = 0 THEN One ELSE Zero]
                     ELSE [k \in 0..(M - 1) |-> Zero]
        /\ pc' = IF port = "ff" THEN "chirpA" ELSE "chirp"
        /\ UNCHANGED <<pass, impl, N, cutoff, inverse, origin, input, calls, pixels, text, seed, rng, writes>>

\* One round of "for (let n = 0; n < M; n++)" (fft.js:111-117).
ff_FillA ==
    /\ impl = "ff"
    /\ pc = "chirpA"
    /\ temp' = [temp EXCEPT ![row] =
                   IF row < N THEN mul(input[row], Chirp(Sign, row, N)) ELSE Zero]
    /\ row' = IF row + 1 < col THEN row + 1 ELSE 1
    /\ pc' = IF row + 1 < col THEN "chirpA" ELSE "chirpB"
    /\ UNCHANGED <<pass, impl, N, cutoff, inverse, origin, input, output, col, calls, pixels, text, seed, rng, writes>>

\* One round of "for (let n = 1; n < N; n++)" (fft.js:126-131):
\* B[n] = val; B[M - n] = val.
ff_FillB ==
    /\ impl = "ff"
    /\ pc = "chirpB"
    /\ IF row < N
       THEN /\ output' = [[output EXCEPT ![row] = Chirp(-Sign, row, N)]
                              EXCEPT ![col - row] = Chirp(-Sign, row, N)]
            /\ row' = row + 1
            /\ pc' = IF row + 1 < N THEN "chirpB" ELSE "filled"
       ELSE /\ pc' = "filled"
            /\ UNCHANGED <<output, row, writes>>
    /\ UNCHANGED <<pass, impl, N, cutoff, inverse, origin, input, temp, col, calls, pixels, text, seed, rng, writes>>

\* One round of "for (let k = 0; k < n; k += 1)" (part_001:74-90):
\* a[k] = x[k] * exp(-i * ang), b[k] = exp(i * ang), and b[m - k] = b[k]
\* if k !== 0, with ang = sign * angBase * k * k.
tf_Fill ==
    LET cosv == Cos(Sign * (HalfTurn \div N) * row * row)
        sinv == Sin(Sign * (HalfTurn \div N) * row * row)
    IN  /\ impl = "tf"
        /\ pc = "chirp"
        /\ temp' = [temp EXCEPT ![row] =
                       Complex(Re(input[row]) * cosv + Im(input[row]) * sinv,
                               Im(input[row]) * cosv - Re(input[row]) * sinv)]
        /\ output' = IF row # 0
                     THEN [[output EXCEPT ![row] = Complex(cosv, sinv)]
                               EXCEPT ![col - row] = Complex(cosv, sinv)]
                     ELSE [output EXCEPT ![row] = Complex(cosv, sinv)]
        /\ row' = row + 1
        /\ pc' = IF row + 1 < N THEN "chirp" ELSE "filled"
        /\ UNCHANGED <<pass, impl, N, cutoff, inverse, origin, input, col, calls, pixels, text, seed, rng, writes>>

NextChirp ==
    \/ \E port \in ChirpPorts : Size(port)
    \/ ff_FillA
    \/ ff_FillB
    \/ tf_Fill

SpecChirp == InitChirp /\ [][NextChirp]_vars

---------------------------------------------------------------------------
(* Claims about the set-up of the chirp convolution (SpecChirp) *)

\* C16: M is the smallest power of two with M >= 2N-1 (and its computation
\* ends), and B is placed circularly: B[0] = 1, B[n] = B[M-n] for n in
\* [1,N), the index sets 1..N-1 and M-N+1..M-1 are disjoint, every other
\* entry of B is zero and so is every A[n] with n >= N.
C16_ChirpPlacement ==
    /\ pc # "size" =>
          /\ col >= 2 * N - 1
          /\ col >= 1 /\ IsPow2(col)
          /\ col = 1 \/ col \div 2 < 2 * N - 1
          /\ col = nextPowerOf2(2 * N - 1) /\ col = nextPow2(2 * N - 1)
    /\ pc = "filled" =>
          /\ DOMAIN temp = 0..(col - 1) /\ DOMAIN output = 0..(col - 1)
          /\ output[0] = One
          /\ \A n \in 1..(N - 1) : output[n] = output[col - n] /\ output[n] # Zero
          /\ (1..(N - 1)) \cap ((col - N + 1)..(col - 1)) = {}
          /\ \A k \in 0..(col - 1) :
                (k # 0 /\ k \notin 1..(N - 1) /\ k \notin (col - N + 1)..(col - 1))
                    => output[k] = Zero
          /\ \A n \in N..(col - 1) : temp[n] = Zero

\* Reached: the buffers of a line of at least five entries are filled, with
\* room left between the two halves of B.
C16_Witness ==
    /\ pc = "filled"
    /\ N >= 5
    /\ col > 2 * N - 1

---------------------------------------------------------------------------
(* Claims about the symmetry of the mask (SpecMask) *)

\* -k modulo N
Negated(k) == (N - k) % N

\* The index k of an axis is kept by the mask just applied: some entry of
\* row k, and some entry of column k, came through (the field masked had no
\* zero entry).
KeptIndex(k) ==
    /\ \E c \in 0..(N - 1) : Entry(impl, output, k, c) # Zero
    /\ \E r \in 0..(N - 1) : Entry(impl, output, r, k) # Zero

\* C18: the frequency indices the mask keeps are closed under negation
\* modulo N on each axis, in every port: k is kept exactly when (N-k) mod N
\* is, and so the entry (r, c) is kept exactly when (-r, -c) is.
\* masked of js/sketch.js (row < n - c) breaks it.
C18_MaskSymmetry ==
    (/\ pc = "masked"
     /\ \A rc \in Cells(N) : Entry(impl, origin, rc[1], rc[2]) # Zero)
    => /\ \A k \in 0..(N - 1) : KeptIndex(k) <=> KeptIndex(Negated(k))
       /\ \A rc \in Cells(N) :
             (Entry(impl, output, rc[1], rc[2]) # Zero)
                 <=> (Entry(impl, output, Negated(rc[1]), Negated(rc[2])) # Zero)

---------------------------------------------------------------------------
(* Seed derivation.  A number the code holds in a double is the pair        *)
(* <<hi, lo>> standing for hi * 2^16 + lo with lo < 2^16, which keeps the   *)
(* full 32 bits (and more, for the sums the code never wraps) exact.  A     *)
(* text is a sequence of items <<code, blocks>>: one character of that      *)
(* code (blocks = 0), or a run of blocks * 2^16 characters of that code,    *)
(* whose rounds of the summing loop are taken in one step.                  *)

\* 2^16
Word16 == 65536

\* x + a, for a pair x and a natural a.
Plus(x, a) == <<x[1] + (x[2] + a) \div Word16, (x[2] + a) % Word16>>

\* x >>> 0 of a non-negative whole number.
ToUint32(x) == <<x[1] % Word16, x[2]>>

\* String.charCodeAt of the characters the texts are made of.
CharCode == [c \in {"t", "e", "a", "l", "f", ":", "?", "z", "&", "=", "b", "g", "c", "o", "r", "x"} |->
    CASE c = "t" -> 116 [] c = "e" -> 101 [] c = "a" -> 97 [] c = "l" -> 108
      [] c = "f" -> 102 [] c = ":" -> 58 [] c = "?" -> 63 [] c = "z" -> 122
      [] c = "&" -> 38 [] c = "=" -> 61 [] c = "b" -> 98 [] c = "g" -> 103
      [] c = "c" -> 99 [] c = "o" -> 111 [] c = "r" -> 114 [] c = "x" -> 120]

One1(c) == <<CharCode[c], 0>>

\* 'tealeaf::'
Prefix == <<One1("t"), One1("e"), One1("a"), One1("l"), One1("e"), One1("a"), One1("f"),
            One1(":"), One1(":")>>

\* seed + the codes of the characters of one item.
PlusItem(x, item) ==
    IF item[2] = 0 THEN Plus(x, item[1]) ELSE <<x[1] + item[2] * item[1], x[2]>>

SeedPorts == {"sk", "pa", "pb", "wb"}

\* The longest run of one character in a query string, in blocks of 2^16.
MaxBlocks == 538

\* The query strings of the seed runs (window.location.search without its
\* "?"): up to two items, each a single "a" or "z" or a long run of "z".
QueryItems == {One1("a"), One1("z"), <<CharCode["z"], MaxBlocks - 1>>, <<CharCode["z"], MaxBlocks>>}

Queries == {<<>>} \cup {<<i>> : i \in QueryItems} \cup {<<i, j>> : i, j \in QueryItems}

InitSeed ==
    /\ pc = "summing"
    /\ pass = 1
    /\ impl \in SeedPorts
    /\ N = 0
    /\ cutoff = 0
    /\ inverse = FALSE
    /\ origin = <<>>
    /\ input = <<>>
    /\ temp = <<>>
    /\ output = <<>>
    /\ row = 0
    /\ col = 0
    /\ calls = <<>>
    /\ pixels = <<>>
    /\ text \in {Prefix \o q : q \in Queries}
    /\ seed = <<0, 0>>
    /\ rng = <<0, 0>>
    /\ writes = <<>>

\* One round of the summing loop, i = row: "seed = seed + seedString
\* .charCodeAt(i)" (js/sketch.js:169, part_000:146, part_000:344) or
\* "seed = (seed + text.charCodeAt(i)) >>> 0" (web/sketch.js:107).
SumRound(port) ==
    /\ impl = port
    /\ pc = "summing"
    /\ row < Len(text)
    /\ seed' = IF port = "wb" THEN ToUint32(PlusItem(seed, text[row + 1]))
               ELSE PlusItem(seed, text[row + 1])
    /\ row' = row + 1
    /\ UNCHANGED <<pc, pass, impl, N, cutoff, inverse, origin, input, temp, output, col,
                   calls, pixels, text, rng, writes>>

\* The end of the loop: "return seed >>> 0" (js/sketch.js:172,
\* part_000:347, web/sketch.js:109); setup of part_000:153 hands seed to
\* generateTeaLeaf as it is.
SumReturn(port) ==
    /\ impl = port
    /\ pc = "summing"
    /\ row >= Len(text)
    /\ pc' = "seeded"
    /\ seed' = IF port = "pa" THEN seed ELSE ToUint32(seed)
    /\ UNCHANGED <<pass, impl, N, cutoff, inverse, origin, input, temp, output, row, col,
                   calls, pixels, text, rng, writes>>

NextSeed ==
    \/ \E port \in SeedPorts : SumRound(port)
    \/ \E port \in SeedPorts : SumReturn(port)

SpecSeed == InitSeed /\ [][NextSeed]_vars

---------------------------------------------------------------------------
(* Claims about the seed (SpecSeed) *)

\* The sum of the character codes of the items of t from the k-th on, as
\* the pair <<multiples of 2^16 from the runs, sum of the single codes>>.
RECURSIVE CodeSum(_, _)
CodeSum(t, k) ==
    IF k > Len(t) THEN <<0, 0>>
    ELSE LET rest == CodeSum(t, k + 1)
         IN  IF t[k][2] = 0 THEN <<rest[1], rest[2] + t[k][1]>>
             ELSE <<rest[1] + t[k][2] * t[k][1], rest[2]>>

\* C12: the seed is the sum of the character codes of the string modulo
\* 2^32: it lies in [0, 2^32) and wraps around, in every variant.  setup of
\* part_000:141-153 breaks it.
C12_SeedWraps ==
    pc = "seeded"
    => LET total == CodeSum(text, 1)
       IN  /\ seed[1] < Word16 /\ seed[2] < Word16
           /\ seed[2] = total[2] % Word16
           /\ seed[1] = (total[1] + total[2] \div Word16) % Word16

---------------------------------------------------------------------------
(* renderTeaLeafSvg (web/sketch.js:188), one round of its "while (x < n)"   *)
(* at a time.  The field is outRe in halves, as in the threshold runs; temp *)
(* is the path: the rectangles emitted so far, "M x flippedY h run v 1      *)
(* h -run Z" being the record of x, y = flippedY and run.                   *)

\* The largest NUM_PIXELS of the SVG runs.
MaxSvg == 4

\* outRe[y * n + x] > threshold
Above(F, y, x) == Re(F[y * N + x]) > THRESHOLD

\* "run < n - 1" where the code has "x + run < n": the last cell of the row
\* never joins a run.
RECURSIVE svg_run_short(_, _, _, _)
svg_run_short(F, y, x, run) ==
    IF x + run < N - 1 /\ Above(F, y, x + run) THEN svg_run_short(F, y, x, run + 1) ELSE run

\* while (x + run < n && outRe[y * n + x + run] > threshold) run += 1;
RECURSIVE svg_run(_, _, _, _)
svg_run(F, y, x, run) ==
    IF x + run < N /\ Above(F, y, x + run) THEN svg_run(F, y, x, run + 1) ELSE run

\* The rows of the fields of the SVG runs: every pattern of cells above the
\* threshold, the others at the threshold (even x) or at zero (odd x).
RowPatterns(n) == [0..(n - 1) -> BOOLEAN]

SvgValue(n, above, x) ==
    IF above THEN Complex(n * n + 1, 0)
    ELSE IF x % 2 = 0 THEN Complex(n * n, 0) ELSE Zero

\* Row 0 has the pattern p, every other row the pattern q.
SvgField(n, p, q) ==
    [i \in 0..(n * n - 1) |->
        SvgValue(n, IF i \div n = 0 THEN p[i % n] ELSE q[i % n], i % n)]

InitSvg ==
    /\ pc = "svg"
    /\ pass = 2
    /\ impl = "wb"
    /\ N \in 1..MaxSvg
    /\ cutoff = 0
    /\ inverse = TRUE
    /\ \E p \in RowPatterns(N), q \in RowPatterns(N) : origin = SvgField(N, p, q)
    /\ input = origin
    /\ temp = <<>>
    /\ output = origin
    /\ row = 0
    /\ col = 0
    /\ calls = <<>>
    /\ pixels = <<>>
    /\ text = <<>>
    /\ seed = <<0, 0>>
    /\ rng = <<0, 0>>
    /\ writes = <<>>

\* One round of "while (x < n)" (y = row, x = col), and with its last round
\* of a row the step of "for (y ...)" to the next row.
SvgScan ==
    LET run == svg_run(output, row, col, 1)
        x2 == IF Above(output, row, col) THEN col + run ELSE col + 1
    IN  /\ pc = "svg"
        /\ temp' = IF Above(output, row, col)
                   THEN Append(temp, [x |-> col, y |-> N - 1 - row, run |-> run])
                   ELSE temp
        /\ col' = IF x2 < N THEN x2 ELSE 0
        /\ row' = IF x2 < N THEN row ELSE row + 1
        /\ pc' = IF x2 < N \/ row + 1 < N THEN "svg" ELSE "drawn"
        /\ UNCHANGED <<pass, impl, N, cutoff, inverse, origin, input, output, calls,
                       pixels, text, seed, rng, writes>>

NextSvg == SvgScan

SpecSvg == InitSvg /\ [][NextSvg]_vars

---------------------------------------------------------------------------
(* Claims about the SVG outline (SpecSvg) *)

\* The rectangles of the path that cover the display cell (dy, dx).
Covering(dy, dx) ==
    {k \in DOMAIN temp : temp[k].y = dy /\ temp[k].x <= dx /\ dx < temp[k].x + temp[k].run}

\* The path is drawn: every cell above the threshold is covered by exactly
\* one rectangle, at the display row N-1-y where renderTeaLeaf paints it,
\* no other cell is covered, and two rectangles of a row neither overlap
\* nor touch.
SvgDrawn ==
    pc = "drawn"
    => /\ \A rc \in Cells(N) :
             Cardinality(Covering(PixelOf("wb", rc[1], rc[2]) \div N,
                                  PixelOf("wb", rc[1], rc[2]) % N))
                 = IF Above(output, rc[1], rc[2]) THEN 1 ELSE 0
       /\ \A k \in DOMAIN temp :
             /\ temp[k].run >= 1 /\ temp[k].x >= 0 /\ temp[k].x + temp[k].run <= N
             /\ temp[k].y \in 0..(N - 1)
       /\ \A j, k \in DOMAIN temp :
             (j # k /\ temp[j].y = temp[k].y /\ temp[j].x <= temp[k].x)
                 => temp[j].x + temp[j].run < temp[k].x

\* A round of the scan moves on: to a later row, or to the right in the row.
SvgAdvances == pc = "svg" => (row' > row \/ (row' = row /\ col' > col))

\* C17: renderTeaLeafSvg emits per row exactly one rectangle for each
\* maximal run of cells above the threshold (every such cell covered once,
\* no other cell covered, no two rectangles of a row overlapping or
\* touching), the scan of a row ends, and field row y is drawn at display
\* row N-1-y, the flip of renderTeaLeaf.
C17_SvgRuns == [](SvgDrawn /\ (pc = "svg" => row < N /\ col < N)) /\ [][SvgAdvances]_vars

\* Reached: a drawn field of side at least 3 with two rectangles in one row
\* and a row without any.
C17_Witness ==
    /\ pc = "drawn"
    /\ N >= 3
    /\ \E j, k \in DOMAIN temp : j # k /\ temp[j].y = temp[k].y
    /\ \E dy \in 0..(N - 1) : \A k \in DOMAIN temp : temp[k].y # dy

---------------------------------------------------------------------------
(* The query string of the web sketch (web/sketch.js:58-102).  A string is  *)
(* the sequence of its characters; text is window.location.search, input   *)
(* window.location.pathname, output the seed text of getQuerySeed, temp    *)
(* fillColor and calls bgColor.                                             *)

\* s.indexOf(c) + 1: the place of the first c in s, 0 when there is none.
IndexOf(s, c) ==
    IF \E i \in 1..Len(s) : s[i] = c
    THEN CHOOSE i \in 1..Len(s) : s[i] = c /\ \A j \in 1..(i - 1) : s[j] # c
    ELSE 0

\* s.split(sep); the split of the empty string is one empty part.
RECURSIVE Split(_, _)
Split(s, sep) ==
    LET i == IndexOf(s, sep)
    IN  IF i = 0 THEN <<s>>
        ELSE <<SubSeq(s, 1, i - 1)>> \o Split(SubSeq(s, i + 1, Len(s)), sep)

\* parts.join(sep)
RECURSIVE Join(_, _)
Join(parts, sep) ==
    IF Len(parts) = 0 THEN <<>>
    ELSE IF Len(parts) = 1 THEN parts[1]
    ELSE parts[1] \o <<sep>> \o Join(Tail(parts), sep)

\* s.startsWith(p)
StartsWith(s, p) == Len(s) >= Len(p) /\ SubSeq(s, 1, Len(p)) = p

ColorEq == <<"c", "o", "l", "o", "r", "=">>
BgEq == <<"b", "g", "=">>
Tealeaf == <<"t", "e", "a", "l", "e", "a", "f", ":", ":">>

\* Only "color=" parts are dropped, "bg=" parts stay in the seed text.
stripSeedParams_colorOnly(raw) ==
    IF raw = <<>> \/ raw = <<"?">> THEN raw
    ELSE LET trimmed == IF StartsWith(raw, <<"?">>) THEN Tail(raw) ELSE raw
             parts == SelectSeq(Split(trimmed, "&"), LAMBDA part : Len(part) > 0)
             filtered == SelectSeq(parts, LAMBDA part : ~StartsWith(part, ColorEq))
         IN  IF Len(filtered) = 0 THEN <<"?">> ELSE <<"?">> \o Join(filtered, "&")

\* stripSeedParams (web/sketch.js:74)
stripSeedParams(raw) ==
    IF raw = <<>> \/ raw = <<"?">> THEN raw
    ELSE LET trimmed == IF StartsWith(raw, <<"?">>) THEN Tail(raw) ELSE raw
             parts == SelectSeq(Split(trimmed, "&"), LAMBDA part : Len(part) > 0)
             filtered == SelectSeq(parts, LAMBDA part :
                             ~StartsWith(part, ColorEq) /\ ~StartsWith(part, BgEq))
         IN  IF Len(filtered) = 0 THEN <<"?">> ELSE <<"?">> \o Join(filtered, "&")

\* getQuerySeed (web/sketch.js:58) of the search raw and the pathname path.
getQuerySeed(raw, path) ==
    LET seedRaw == stripSeedParams(raw)
        trimmedPath == IF StartsWith(path, <<"/">>) THEN Tail(path) ELSE path
    IN  IF seedRaw # <<>> /\ seedRaw # <<"?">> THEN Tealeaf \o seedRaw
        ELSE IF trimmedPath # <<>> THEN Tealeaf \o <<"?">> \o trimmedPath
        ELSE Tealeaf

\* The percent escapes of the queries: %23 is "#", %20 a space.
Escapes == (<<"2", "3">> :> "#") @@ (<<"2", "0">> :> " ")

\* The decoding of URLSearchParams: "+" is a space, a percent escape its
\* character, a "%" that starts no escape stays.
RECURSIVE Decode(_)
Decode(s) ==
    IF s = <<>> THEN <<>>
    ELSE IF s[1] = "+" THEN <<" ">> \o Decode(Tail(s))
    ELSE IF s[1] = "%" /\ Len(s) >= 3 /\ SubSeq(s, 2, 3) \in DOMAIN Escapes
         THEN <<Escapes[SubSeq(s, 2, 3)]>> \o Decode(SubSeq(s, 4, Len(s)))
    ELSE <<s[1]>> \o Decode(Tail(s))

\* new URLSearchParams(search): the pairs of name and value of the parts
\* that are not empty, each split at its first "=" and decoded.
URLSearchParams(search) ==
    LET body == IF StartsWith(search, <<"?">>) THEN Tail(search) ELSE search
        parts == SelectSeq(Split(body, "&"), LAMBDA part : Len(part) > 0)
        pair(part) ==
            LET i == IndexOf(part, "=")
            IN  IF i = 0 THEN <<Decode(part), <<>>>>
                ELSE <<Decode(SubSeq(part, 1, i - 1)), Decode(SubSeq(part, i + 1, Len(part)))>>
    IN  [k \in 1..Len(parts) |-> pair(parts[k])]

\* params.get(name): the value of the first pair of that name, or null.
Get(params, name) ==
    LET named == SelectSeq(params, LAMBDA p : p[1] = name)
    IN  IF Len(named) = 0 THEN Null ELSE named[1][2]

\* s.trim()
RECURSIVE Trim(_)
Trim(s) ==
    IF s = <<>> THEN s
    ELSE IF s[1] = " " THEN Trim(Tail(s))
    ELSE IF s[Len(s)] = " " THEN Trim(SubSeq(s, 1, Len(s) - 1))
    ELSE s

LowerHex == {"0", "1", "2", "3", "4", "5", "6", "7", "8", "9", "a", "b", "c", "d", "e", "f"}
UpperHex == {"A", "B", "C", "D", "E", "F"}

\* c.toLowerCase() for the characters of the queries.
LowerOf(c) ==
    CASE c = "A" -> "a" [] c = "B" -> "b" [] c = "C" -> "c"
      [] c = "D" -> "d" [] c = "E" -> "e" [] c = "F" -> "f" [] OTHER -> c

toLowerCase(s) == [i \in 1..Len(s) |-> LowerOf(s[i])]

\* /^[0-9a-fA-F]{k}$/.test(s)
IsHex(s, k) == Len(s) = k /\ \A i \in 1..k : s[i] \in LowerHex \cup UpperHex

DEFAULT_COLOR == <<"#", "0", "0", "0", "0", "0", "0">>
DEFAULT_BG == Null

\* getHexParam (web/sketch.js:93)
getHexParam(search, name, fallback) ==
    LET raw == Get(URLSearchParams(search), name)
        cleaned == Trim(IF StartsWith(raw, <<"#">>) THEN Tail(raw) ELSE raw)
    IN  IF raw = Null \/ raw = <<>> THEN fallback
        ELSE IF IsHex(cleaned, 6) \/ IsHex(cleaned, 3) THEN <<"#">> \o toLowerCase(cleaned)
        ELSE fallback

getColorOverride(search) == getHexParam(search, <<"c", "o", "l", "o", "r">>, DEFAULT_COLOR)
getBgOverride(search) == getHexParam(search, <<"b", "g">>, DEFAULT_BG)

\* The most parameters of a query.
MaxParams == 3

\* The parameters of the queries: two the seed keeps, an empty one, and
\* colours that are valid (3 digits, 6 digits with an escaped "#" and upper
\* case, 3 digits between spaces) and invalid (4 digits).
SeedParams ==
    { <<"a">>, <<"c", "o", "l", "o", "u", "r", "=", "f", "f", "f">>, <<>> }

ColourParams ==
    { ColorEq \o <<"f", "0", "f">>,
      ColorEq \o <<"%", "2", "3", "A", "1", "b", "2", "C", "3">>,
      ColorEq \o <<"f", "f", "f", "f">>,
      BgEq \o <<"+", "0", "F", "0", "+">> }

QueryParams == SeedParams \cup ColourParams

\* The search of a URL with the given parameters.
Search(params) == IF Len(params) = 0 THEN <<>> ELSE <<"?">> \o Join(params, "&")

\* The parameters of a search: none for "" and "?", else its parts.
ParamsOf(search) ==
    IF search = <<>> \/ search = <<"?">> THEN <<>> ELSE Split(Tail(search), "&")

Pathnames == { <<>>, <<"/">>, <<"/", "p">> }

\* setup (web/sketch.js:29-32) on a page of the given search and pathname.
Load(search, path) ==
    /\ text' = search
    /\ input' = path
    /\ output' = getQuerySeed(search, path)
    /\ temp' = getColorOverride(search)
    /\ calls' = getBgOverride(search)

InitQuery ==
    /\ pc = "loaded"
    /\ pass = 0
    /\ impl = "wb"
    /\ N = 0
    /\ cutoff = 0
    /\ inverse = FALSE
    /\ origin = <<>>
    /\ \E k \in 0..MaxParams : \E params \in [1..k -> QueryParams] :
          text = Search(params)
    /\ input \in Pathnames
    /\ output = getQuerySeed(text, input)
    /\ temp = getColorOverride(text)
    /\ calls = getBgOverride(text)
    /\ row = 0
    /\ col = 0
    /\ pixels = <<>>
    /\ seed = <<0, 0>>
    /\ rng = <<0, 0>>
    /\ writes = <<>>

\* The page is loaded again with one more colour parameter in its query.
AddColour ==
    /\ Len(ParamsOf(text)) < MaxParams
    /\ \E i \in 0..Len(ParamsOf(text)), c \in ColourParams :
          Load(Search(SubSeq(ParamsOf(text), 1, i) \o <<c>>
                      \o SubSeq(ParamsOf(text), i + 1, Len(ParamsOf(text)))), input)
    /\ pass' = 1
    /\ UNCHANGED <<pc, impl, N, cutoff, inverse, origin, row, col, pixels, seed, rng, writes>>

\* The page is loaded again with one colour parameter less in its query.
DropColour ==
    /\ \E i \in 1..Len(ParamsOf(text)) :
          /\ StartsWith(ParamsOf(text)[i], ColorEq) \/ StartsWith(ParamsOf(text)[i], BgEq)
          /\ Load(Search(SubSeq(ParamsOf(text), 1, i - 1)
                         \o SubSeq(ParamsOf(text), i + 1, Len(ParamsOf(text)))), input)
    /\ pass' = 1
    /\ UNCHANGED <<pc, impl, N, cutoff, inverse, origin, row, col, pixels, seed, rng, writes>>

NextQuery == AddColour \/ DropColour

SpecQuery == InitQuery /\ [][NextQuery]_vars

---------------------------------------------------------------------------
(* Claims about the query string (SpecQuery) *)

\* "#" and 3 or 6 lower-case hex digits.
HexColour(c) ==
    /\ Len(c) \in {4, 7}
    /\ c[1] = "#"
    /\ \A i \in 2..Len(c) : c[i] \in LowerHex

\* C19: the seed text of getQuerySeed is the same for queries that differ
\* only in the presence, position or value of parameters beginning with
\* "color=" or "bg=", and getColorOverride and getBgOverride return a "#"
\* with 3 or 6 lower-case hex digits or their fallback.
C19_SeedIgnoresColours ==
    /\ [][output' = output]_vars
    /\ [](/\ (temp = DEFAULT_COLOR \/ HexColour(temp))
          /\ (calls = DEFAULT_BG \/ HexColour(calls)))

\* Reached: after a change of the colour parameters, a query whose first
\* parameter is a colour with upper-case digits, with a seed text that
\* keeps a parameter, the colour taken in lower case and a background.
C19_Witness ==
    /\ pass = 1
    /\ StartsWith(text, <<"?">> \o ColorEq \o <<"%">>)
    /\ output = Tealeaf \o <<"?", "a">>
    /\ temp = <<"#", "a", "1", "b", "2", "c", "3">>
    /\ calls = <<"#", "0", "f", "0">>

---------------------------------------------------------------------------
(* The random number generators.  A 32-bit value is the pair of its 16-bit  *)
(* halves, as in the seed runs.                                             *)

\* a ^ b and a | b of two non-negative whole numbers
RECURSIVE BitXor(_, _)
BitXor(a, b) ==
    IF a = 0 THEN b ELSE IF b = 0 THEN a
    ELSE ((a + b) % 2) + 2 * BitXor(a \div 2, b \div 2)

RECURSIVE BitOr(_, _)
BitOr(a, b) ==
    IF a = 0 THEN b ELSE IF b = 0 THEN a
    ELSE (IF a % 2 = 1 \/ b % 2 = 1 THEN 1 ELSE 0) + 2 * BitOr(a \div 2, b \div 2)

\* x ^ y, x | c (c below 2^16), x >>> k (k below 16) and x + y on 32 bits
Xor32(x, y) == <<BitXor(x[1], y[1]), BitXor(x[2], y[2])>>

Or32(x, c) == <<x[1], BitOr(x[2], c)>>

Shr32(x, k) ==
    <<x[1] \div PowerOf2(k), (x[1] % PowerOf2(k)) * PowerOf2(16 - k) + (x[2] \div PowerOf2(k))>>

Add32(x, y) ==
    <<(x[1] + y[1] + (x[2] + y[2]) \div Word16) % Word16, (x[2] + y[2]) % Word16>>

\* The product of two 16-bit numbers, in two steps of 8 bits of a.
Mul16(a, b) ==
    Add32(<<((a % 256) * b) \div Word16, ((a % 256) * b) % Word16>>,
          <<((a \div 256) * b) \div 256, (((a \div 256) * b) % 256) * 256>>)

\* Math.imul(x, y): the low 32 bits of the product.
imul(x, y) ==
    <<(Mul16(x[2], y[2])[1] + Mul16(x[1], y[2])[2] + Mul16(x[2], y[1])[2]) % Word16,
      Mul16(x[2], y[2])[2]>>

\* 0x6D2B79F5
Increment == <<27947, 31221>>

\* mulberry32 (js/sketch.js:10, part_000:30, part_000:184), one call of the
\* closure: the state it leaves ("seed += 0x6D2B79F5", on 32 bits, which is
\* all the bit operations read of it) and the 32 bits it returns over 2^32.
mulberry32_state(s) == Add32(s, Increment)

Scramble1(t) == imul(Xor32(t, Shr32(t, 15)), Or32(t, 1))

Scramble2(t) == Xor32(t, Add32(t, imul(Xor32(t, Shr32(t, 7)), Or32(t, 61))))

mulberry32_out(s) ==
    Xor32(Scramble2(Scramble1(s)), Shr32(Scramble2(Scramble1(s)), 14))

\* A 31-bit value as a whole number, and back.
ToInt(x) == x[1] * Word16 + x[2]

FromInt(v) == <<v \div Word16, v % Word16>>

\* 2147483647
Mersenne31 == 2147483647

\* nextRand of makeRng (web/sketch.js:116)
nextRand(state) ==
    LET hi == state \div 127773
        lo == state - hi * 127773
        test == 16807 * lo - 2836 * hi
    IN  IF test <= 0 THEN test + Mersenne31 ELSE test

\* (seed >>> 0) % 2147483647 (web/sketch.js:114); 2^31 is 1 more than the
\* modulus.
Mod31(x) ==
    IF x[1] < 32768 THEN ToInt(x) % Mersenne31
    ELSE ((ToInt(<<x[1] - 32768, x[2]>>) % Mersenne31) + 1) % Mersenne31

\* The generators of the pipelines: "tf" is web/sketch.js, whose transform
\* is part_001.
PipePorts == {"sk", "pa", "pb", "tf"}

\* The generator goes on from the state the run before left.
FreshRng_resumed(port, s) ==
    IF rng # <<0, 0>> THEN rng
    ELSE IF port = "tf" THEN FromInt(IF Mod31(s) = 0 THEN 1 ELSE Mod31(s))
    ELSE ToUint32(s)

\* mulberry32(seed), makeRng(seed): the state of the new closure.
FreshRng(port, s) ==
    IF port = "tf" THEN FromInt(IF Mod31(s) = 0 THEN 1 ELSE Mod31(s))
    ELSE ToUint32(s)

\* The state after one more call of the generator.
Advance(port, st) ==
    IF port = "tf" THEN FromInt(nextRand(ToInt(st))) ELSE mulberry32_state(st)

\* The bit drawn by the call that left the state st: Math.floor(rand() * 2)
\* and "rng() < 0.5 ? 0 : 1" are the top bit of the 32 bits, "rand() & 1"
\* the low bit of the state.
Drawn(port, st) ==
    IF port = "tf" THEN st[2] % 2
    ELSE IF mulberry32_out(st)[1] >= 32768 THEN 1 ELSE 0

\* k calls: the bits drawn, in order, and the state left.
RECURSIVE Draw(_, _, _, _)
Draw(port, st, k, acc) ==
    IF k = 0 THEN [bits |-> acc, state |-> st]
    ELSE Draw(port, Advance(port, st), k - 1, Append(acc, Drawn(port, Advance(port, st))))

---------------------------------------------------------------------------
(* The pipelines: generateTeaLeaf and setup of js/sketch.js and part_000,   *)
(* setup of web/sketch.js.  The noise, the mask and the pixels are one step *)
(* each, the two transforms go by the row and column steps of fft2d.  A run *)
(* is followed by a second run with the same seed; origin keeps the noise,  *)
(* the field and the pixels of the first.  The field of numbers has no      *)
(* order: a pixel compares the representatives, which is a function of the  *)
(* entry as the comparison of the code is.                                  *)

\* The sketch of a pipeline.
Sketch(port) == IF port = "tf" THEN "wb" ELSE port

\* The noise field from the bits drawn: js/sketch.js pads it with zeros to
\* FFT_SIZE, web/sketch.js fills the flat array.
NoiseField(port, bits) ==
    CASE port = "tf" -> Array([i \in 0..(N * N - 1) |-> Complex(bits[i + 1], 0)])
      [] port = "sk" ->
            Array([i \in 0..(FFT_SIZE - 1) |-> Array([j \in 0..(FFT_SIZE - 1) |->
                IF i < N /\ j < N THEN Complex(bits[i * N + j + 1], 0) ELSE Zero])])
      [] OTHER ->
            Array([i \in 0..(N - 1) |-> Array([j \in 0..(N - 1) |->
                Complex(bits[i * N + j + 1], 0)])])

\* value > THRESHOLD, on the representative of the real component.
Over(z) == 2 * Re(z) > THRESHOLD

\* The pixel loops: js/sketch.js:188, part_000:125, part_000:363 and
\* renderTeaLeaf (web/sketch.js:153).
Pixels(port, F) ==
    [p \in 0..(N * N - 1) |->
        IF port = "tf" THEN Over(F[(N - 1 - (p \div N)) * N + (p % N)])
        ELSE Over(F[p \div N][p % N])]

\* The largest NUM_PIXELS of the pipelines.
MaxField == 4

PipeSizes(port) ==
    IF port \in {"pa", "pb"} THEN {n \in 1..MaxField : IsPow2(n)} ELSE 1..MaxField

\* Seeds: of the empty query (838 is the sum of 'tealeaf::'), small ones,
\* one above 2^16 and the largest.
PipeSeeds == {<<0, 0>>, <<0, 1>>, <<0, 838>>, <<100, 838>>, <<65535, 65535>>}

FirstRun == [run |-> 1, noise |-> <<>>, field |-> <<>>, pixels |-> <<>>]

InitPipe ==
    /\ pc = "seeded"
    /\ pass = 0
    /\ impl \in PipePorts
    /\ N \in PipeSizes(impl)
    /\ cutoff \in 0..(N \div 2)
    /\ inverse = FALSE
    /\ origin = FirstRun
    /\ input = <<>>
    /\ temp = <<>>
    /\ output = <<>>
    /\ row = 0
    /\ col = 0
    /\ calls = <<>>
    /\ pixels = <<>>
    /\ text = <<>>
    /\ seed \in PipeSeeds
    /\ rng = <<0, 0>>
    /\ writes = <<>>

\* The noise stage and the call of the forward fft2d, d being what the
\* generator drew.
NoiseDone(port, d, F) ==
    /\ rng' = d.state
    /\ input' = F
    /\ origin' = IF origin.run = 1 THEN [origin EXCEPT !.noise = F] ELSE origin
    /\ temp' = FreshTemp(port, F)
    /\ output' = FreshResult(port, F)
    /\ writes' = FreshWrites(port, F)

Noise(port) ==
    /\ impl = port
    /\ pc = "seeded"
    /\ pc' = "rows"
    /\ pass' = 1
    /\ inverse' = FALSE
    /\ row' = 0
    /\ col' = 0
    /\ \E d \in {Draw(port, FreshRng(port, seed), N * N, <<>>)} :
          NoiseDone(port, d, NoiseField(port, d.bits))
    /\ UNCHANGED <<impl, N, cutoff, calls, pixels, text, seed>>

\* The mask loop on the result of the forward fft2d, and the call of the
\* inverse fft2d with the masked field.
MaskStage(port) ==
    /\ impl = port
    /\ pc = "done"
    /\ pass = 1
    /\ pc' = "rows"
    /\ pass' = 2
    /\ inverse' = TRUE
    /\ row' = 0
    /\ col' = 0
    /\ \E F \in {ApplyMask(Sketch(port), output)} :
          /\ input' = F
          /\ temp' = FreshTemp(port, F)
          /\ output' = FreshResult(port, F)
          /\ writes' = FreshWrites(port, F)
    /\ UNCHANGED <<impl, N, cutoff, origin, calls, pixels, text, seed, rng>>

\* The pixel loop on the result of the inverse fft2d.
Threshold(port) ==
    /\ impl = port
    /\ pc = "done"
    /\ pass = 2
    /\ pc' = "painted"
    /\ pixels' = Pixels(port, output)
    /\ UNCHANGED <<pass, impl, N, cutoff, inverse, origin, input, temp, output, row, col,
                   calls, text, seed, rng, writes>>

\* The page is loaded once more with the same query: setup runs again.
\* Nothing of the first run is cleared.
Rerun ==
    /\ pc = "painted"
    /\ origin.run = 1
    /\ pc' = "seeded"
    /\ origin' = [run |-> 2, noise |-> origin.noise, field |-> output, pixels |-> pixels]
    /\ UNCHANGED <<pass, impl, N, cutoff, inverse, input, temp, output, row, col, calls,
                   pixels, text, seed, rng, writes>>

NextPipe ==
    \/ \E port \in PipePorts : Noise(port)
    \/ \E port \in PipePorts : RowStep(port)
    \/ \E port \in PipePorts : ColStep(port)
    \/ ScaleStep
    \/ \E port \in PipePorts : MaskStage(port)
    \/ \E port \in PipePorts : Threshold(port)
    \/ Rerun

SpecPipe == InitPipe /\ [][NextPipe]_vars

---------------------------------------------------------------------------
(* Claims about the pipelines (SpecPipe) *)

SideOf(port, F) == IF port = "tf" THEN Sqrt(Length(F)) ELSE Length(F)

\* C13: every field handed from one stage to the next (noise, forward
\* transform, mask, inverse transform, threshold) has side exactly N: no
\* stage pads, crops or resizes, and the Bluestein lines come back with N
\* entries.  js/sketch.js, which pads the noise to FFT_SIZE and crops in
\* its pixel loop, breaks it.
C13_FieldSide ==
    pc \in {"rows", "cols", "scale", "done", "painted"} =>
        /\ SideOf(impl, input) = N
        /\ pc \in {"done", "painted"} =>
              /\ SideOf(impl, output) = N
              /\ impl # "tf" => \A r \in DOMAIN output : Length(output[r]) = N
        /\ \A k \in DOMAIN calls : calls[k].by = "line" => calls[k].len = N

=============================================================================
